---- MODULE Spec2Model ----
(***************************************************************************)
(* Event subscriptions of chromiumoxide (src/src/subscribe.rs): the        *)
(* registry `Subscriptions`, one `EventSubscription` per listener, the     *)
(* unbounded mpsc channel between a subscription and its consumer, and the *)
(* typed `EventStream<T>` the consumer pulls from; and the string          *)
(* properties and the attribute stream of an `Element`                     *)
(* (src/src/element.rs).                                                   *)
(*                                                                         *)
(* Every registry operation is one atomic action: the registry is owned by *)
(* one task (&mut self).  A consumer runs in its own task; its steps       *)
(* (poll_next, drop of the stream) interleave with the registry's.         *)
(***************************************************************************)
EXTENDS Naturals, Sequences, FiniteSets

\* ---------------------------------------------------------------- bounds
MaxSubs == 2        \* registrations in one behaviour
MaxListeners == 3   \* listeners there are, with those registered before it starts
MaxEvents == 3      \* Arc<dyn Event> allocations in one behaviour
ChanCap == 2        \* items a channel buffers before poll_ready is Pending
MaxChanCap == 3     \* the same, for the channels of the drain behaviours
MaxAttrs == 2       \* attributes of the element's node

\* ---------------------------------------------------------------- inputs
Keys == {"Foo", "Bar"}
\* The event types a stream can be bound to: one native, two custom ones.
Types == {"Nat", "CusA", "CusB"}
\* The raw JSON values try_send_custom is called with.
Raws == {1, 2, 3}

Ids == 1..MaxListeners

\* The string properties read by inner_text, inner_html and outer_html.
PropNames == {"innerText", "innerHTML", "outerHTML"}
\* What the page answers for a property (Option<serde_json::Value>): nothing,
\* an empty string, a non-empty string, a number.
PropValues ==
    {<<>>, <<[ty |-> "string", txt |-> ""]>>, <<[ty |-> "string", txt |-> "hi"]>>,
     <<[ty |-> "number", txt |-> "7"]>>}

\* The attribute names and values of the element's node.
AttrNames == {"id", "class"}
AttrValues == {"x", "y"}

\* attrs followed by one more attribute whose name it does not have yet.
OneMoreAttr(attrs) ==
    {attrs \o <<n, v>> : n \in {a \in AttrNames : \A i \in DOMAIN attrs : attrs[i] # a},
                         v \in AttrValues}

\* Node.attributes of up to n attributes with different names, as the flat
\* array [name1, value1, name2, value2, ...].
RECURSIVE FlatArrays(_)
FlatArrays(n) ==
    IF n = 0 THEN {<<>>}
    ELSE LET shorter == FlatArrays(n - 1) IN
         shorter \cup UNION {OneMoreAttr(a) : a \in shorter}

\* Node.attributes is an Option<Vec<String>>.
NodeAttributes == {<<>>} \cup {<<a>> : a \in FlatArrays(MaxAttrs)}

VARIABLES
    subs,        \* Subscriptions.subs: method -> Vec<EventSubscription>
    alive,       \* the Subscriptions value has not been dropped
    chan,        \* per listener: the items buffered in its mpsc channel
    rx,          \* per listener: "none" (not created) / "open" / "dropped"
    task,        \* per consumer task: "runnable" / "parked" / "ended"
    waker,       \* per listener: the receiver holds the consumer task's waker
    bound,       \* per listener: the type T of its EventStream<T>
    recv,        \* per listener: every item its receiver has handed out
    yielded,     \* per listener: every item EventStream::poll_next returned
    nextHandle,  \* number of Arc allocations so far (the next one's identity)
    last,        \* return value and decoder invocations of the last registry call
    cap,         \* items a channel buffers before its poll_ready is Pending
    props,       \* the element in the page: property name -> its value
    node,        \* the element's Node.attributes
    propret,     \* the last string property read and what it returned
    stream,      \* the AttributeStream: attributes, fut and whether it has ended
    items        \* every item the AttributeStream has yielded

elementVars == <<props, node, propret, stream, items>>
registryVars == <<subs, alive, chan, rx, task, waker, bound, recv, yielded, nextHandle, last,
                  cap>>

vars == <<subs, alive, chan, rx, task, waker, bound, recv, yielded, nextHandle, last,
          cap, props, node, propret, stream, items>>

\* ------------------------------------------------------------ event kinds
Native == [custom |-> FALSE, conv |-> "none"]
Custom(c) == [custom |-> TRUE, conv |-> c]

\* EventKind::is_custom
IsCustom(kind) == kind.custom

\* T::event_kind() of the type an EventStream<T: IntoEventKind> is bound to.
KindOf(T) == IF T = "Nat" THEN Native ELSE Custom(T)

\* The raw values a custom type's decoder accepts.
Accepts(conv) == IF conv = "CusA" THEN {1} ELSE IF conv = "CusB" THEN {1, 2} ELSE {}

\* json_to_arc_event(val): a fresh Arc of the decoder's type, or the serde error.
Decode(conv, val, h, method) ==
    IF val \in Accepts(conv)
    THEN [err |-> FALSE,
          event |-> [h |-> h, src |-> "custom", key |-> method, ty |-> conv]]
    ELSE [err |-> TRUE,
          event |-> [h |-> 0, src |-> "custom", key |-> method, ty |-> conv]]

\* Arc::new(event) in Subscriptions::start_send
NativeEvent(h, method) == [h |-> h, src |-> "native", key |-> method, ty |-> "Nat"]

\* ------------------------------------------------------------ small helpers
\* The one element of a one-element set.  {F(x) : x \in {e}} evaluates e once
\* and hands F its value.
The(S) == CHOOSE x \in S : TRUE

NumRegistered == Cardinality({i \in Ids : rx[i] # "none"})

\* The listeners whose sender half is still held by a subscription.
SenderIds(m) == {m[k][i].id : <<k, i>> \in {<<k, i>> \in Keys \X Ids :
                                             k \in DOMAIN m /\ i \in DOMAIN m[k]}}

HasSender(id) == id \in SenderIds(subs)

\* The subscription record of listener id in registry m.
SubOf(m, id) ==
    LET p == CHOOSE p \in {<<k, i>> \in Keys \X Ids :
                             k \in DOMAIN m /\ i \in DOMAIN m[k] /\ m[k][i].id = id} : TRUE
    IN m[p[1]][p[2]]

TypeOK ==
    /\ DOMAIN subs \subseteq Keys
    /\ alive \in BOOLEAN
    /\ \A id \in Ids : /\ rx[id] \in {"none", "open", "dropped"}
                       /\ task[id] \in {"runnable", "parked", "ended"}
                       /\ waker[id] \in BOOLEAN
                       /\ Len(chan[id]) <= cap
    /\ nextHandle \in 0..MaxEvents
    /\ last.ret \in {"Ok", "Err"}

\* No string property has been read and no AttributeStream made.
ElementUntouched ==
    /\ propret = [property |-> "none", err |-> "none", val |-> <<>>]
    /\ stream = [state |-> "none", attributes |-> <<>>, fut |-> <<>>]
    /\ items = <<>>

\* The registry after Subscriptions::default(), no listener yet.
RegistryInit ==
    /\ subs = [k \in {} |-> <<>>]
    /\ alive = TRUE
    /\ chan = [id \in Ids |-> <<>>]
    /\ rx = [id \in Ids |-> "none"]
    /\ task = [id \in Ids |-> "ended"]
    /\ waker = [id \in Ids |-> FALSE]
    /\ bound = [id \in Ids |-> "Nat"]
    /\ recv = [id \in Ids |-> <<>>]
    /\ yielded = [id \in Ids |-> <<>>]
    /\ nextHandle = 0
    /\ last = [ret |-> "Ok", decodes |-> 0]

\* The registry alone: the element is one without properties or attributes
\* and is left alone.
Init ==
    /\ RegistryInit
    /\ cap = ChanCap
    /\ props = [p \in PropNames |-> <<>>]
    /\ node = <<>>
    /\ ElementUntouched

\* ------------------------------------------------ Subscriptions::add_listener
\* Mutant of AddListenerResult: a key holds one subscription of a kind, a
\* second registration of the same kind under the key is not added.
AddListenerDedup(m, method, id, kind) ==
    IF method \in DOMAIN m /\ \E i \in DOMAIN m[method] : m[method][i].kind = kind
    THEN m
    ELSE [k \in DOMAIN m \cup {method} |->
            IF k = method
            THEN Append(IF k \in DOMAIN m THEN m[k] ELSE <<>>,
                        [id |-> id, kind |-> kind, queued |-> <<>>,
                         enq |-> <<>>, sent |-> <<>>])
            ELSE m[k]]

\* subs.entry(method).or_insert_with(Vec::new).push(EventSubscription {..})
AddListenerResult(m, method, id, kind) ==
    [k \in DOMAIN m \cup {method} |->
        IF k = method
        THEN Append(IF k \in DOMAIN m THEN m[k] ELSE <<>>,
                    [id |-> id, kind |-> kind, queued |-> <<>>,
                     enq |-> <<>>, sent |-> <<>>])
        ELSE m[k]]

\* A consumer creates a channel, registers its sender half under `method` and
\* wraps the receiver half in an EventStream<T>.
AddListener(method, T) ==
    /\ alive
    /\ NumRegistered < MaxSubs
    /\ LET id == NumRegistered + 1 IN
        /\ subs' = AddListenerResult(subs, method, id, KindOf(T))
        /\ rx' = [rx EXCEPT ![id] = "open"]
        /\ task' = [task EXCEPT ![id] = "runnable"]
        /\ bound' = [bound EXCEPT ![id] = T]
    /\ last' = [ret |-> "Ok", decodes |-> 0]
    /\ UNCHANGED <<alive, chan, waker, recv, yielded, nextHandle>>
    /\ UNCHANGED <<cap, elementVars>>

\* ------------------------------------------- EventSubscription::start_send
\* Mutant of SubStartSend: push_front, the new event goes before the others.
SubStartSendFront(sub, event) ==
    [sub EXCEPT !.queued = <<event>> \o @, !.enq = Append(@, event)]

\* self.queued_events.push_back(event); enq is the history of what was queued.
SubStartSend(sub, event) ==
    [sub EXCEPT !.queued = Append(@, event), !.enq = Append(@, event)]

\* --------------------------------------------- Subscriptions::start_send
\* Mutant of SubscriptionsStartSend: the event is queued on the Native
\* subscriptions of the key only.
StartSendNativeOnly(m, method, h) ==
    IF method \in DOMAIN m
    THEN LET event == NativeEvent(h, method) IN
         [subs |-> [m EXCEPT ![method] =
                        [i \in DOMAIN @ |-> IF IsCustom(@[i].kind) THEN @[i]
                                             ELSE SubStartSend(@[i], event)]],
          allocs |-> 1]
    ELSE [subs |-> m, allocs |-> 0]

\* Mutant of SubscriptionsStartSend: the method is not looked up, the event
\* is queued on the subscriptions of every key.
StartSendEveryKey(m, method, h) ==
    LET event == NativeEvent(h, method) IN
    [subs |-> [k \in DOMAIN m |-> [i \in DOMAIN m[k] |-> SubStartSend(m[k][i], event)]],
     allocs |-> 1]

\* The registry after start_send(method, event), and the Arcs it allocated.
SubscriptionsStartSend(m, method, h) ==
    IF method \in DOMAIN m
    THEN LET event == NativeEvent(h, method) IN
         [subs |-> [m EXCEPT ![method] =
                        [i \in DOMAIN @ |-> SubStartSend(@[i], event)]],
          allocs |-> 1]
    ELSE [subs |-> m, allocs |-> 0]

StartSend(method) ==
    /\ alive
    /\ nextHandle < MaxEvents
    /\ LET r == SubscriptionsStartSend(subs, method, nextHandle + 1) IN
        /\ subs' = r.subs
        /\ nextHandle' = nextHandle + r.allocs
    /\ last' = [ret |-> "Ok", decodes |-> 0]
    /\ UNCHANGED <<alive, chan, rx, task, waker, bound, recv, yielded>>
    /\ UNCHANGED <<cap, elementVars>>

\* ------------------------------------------ Subscriptions::try_send_custom
\* Mutant of DecodeFailed: the decode error is swallowed.
DecodeNeverFails(d) == FALSE

\* json_to_arc_event(val)?: a decode error leaves the function at once.
DecodeFailed(d) == d.err

\* Mutant of CustomTarget: the filter on the kind is missing.
AnyTarget(sub) == TRUE

\* .filter(|sub| sub.kind.is_custom()): the subscriptions the decoded event
\* is queued on.
CustomTarget(sub) == IsCustom(sub.kind)

\* Mutant of CustomConvs: the kind is not looked at, a Native subscription
\* counts with a decoder that accepts nothing.
ConvsOfAnyKind(list) == [i \in DOMAIN list |-> list[i].kind.conv]

\* The decoders of the Custom subscriptions of a list, in list order.
CustomConvs(list) ==
    LET cs == SelectSeq(list, LAMBDA s : IsCustom(s.kind)) IN
    [i \in DOMAIN cs |-> cs[i].kind.conv]

\* Mutant of SubscriptionsTrySendCustom: every Custom subscription's own
\* decoder is run and each subscription gets the Arc of its own decode.
TrySendCustomPerSubscription(m, method, val, h) ==
    IF method \in DOMAIN m /\ CustomConvs(m[method]) # <<>>
    THEN LET list == m[method]
             nth(i) == Cardinality({j \in 1..i : IsCustom(list[j].kind)})
             dec(i) == Decode(list[i].kind.conv, val, h + nth(i) - 1, method)
             n == Len(CustomConvs(list))
         IN IF \E i \in DOMAIN list : IsCustom(list[i].kind) /\ dec(i).err
            THEN [subs |-> m, ret |-> "Err", decodes |-> n, allocs |-> 0]
            ELSE [subs |-> [m EXCEPT ![method] =
                              [i \in DOMAIN @ |->
                                  IF IsCustom(@[i].kind)
                                  THEN SubStartSend(@[i], dec(i).event)
                                  ELSE @[i]]],
                  ret |-> "Ok", decodes |-> n, allocs |-> n]
    ELSE [subs |-> m, ret |-> "Ok", decodes |-> 0, allocs |-> 0]

\* The registry after try_send_custom(method, val), what it returned, how
\* often a decoder ran and how many Arcs were allocated.
SubscriptionsTrySendCustom(m, method, val, h) ==
    IF method \in DOMAIN m
    THEN LET convs == CustomConvs(m[method]) IN
         IF convs # <<>>
         THEN LET d == Decode(Head(convs), val, h, method) IN
              IF DecodeFailed(d)
              THEN [subs |-> m, ret |-> "Err", decodes |-> 1, allocs |-> 0]
              ELSE [subs |-> [m EXCEPT ![method] =
                                [i \in DOMAIN @ |->
                                    IF CustomTarget(@[i])
                                    THEN SubStartSend(@[i], d.event)
                                    ELSE @[i]]],
                    ret |-> "Ok", decodes |-> 1, allocs |-> 1]
         ELSE [subs |-> m, ret |-> "Ok", decodes |-> 0, allocs |-> 0]
    ELSE [subs |-> m, ret |-> "Ok", decodes |-> 0, allocs |-> 0]

TrySendCustom(method, val) ==
    /\ alive
    /\ nextHandle < MaxEvents
    /\ LET r == SubscriptionsTrySendCustom(subs, method, val, nextHandle + 1) IN
        /\ subs' = r.subs
        /\ nextHandle' = nextHandle + r.allocs
        /\ last' = [ret |-> r.ret, decodes |-> r.decodes]
    /\ UNCHANGED <<alive, chan, rx, task, waker, bound, recv, yielded>>
    /\ UNCHANGED <<cap, elementVars>>

\* ------------------------------------------------ the channel's sender half
\* Mutant of SinkPollReady: one readiness for all listeners, no channel is
\* ready while the channel of any connected consumer is full.
SinkPollReadyShared(id, buf) ==
    IF rx[id] # "open" THEN "Disconnected"
    ELSE IF Len(buf) >= cap
            \/ \E j \in Ids : rx[j] = "open" /\ Len(chan[j]) >= cap
    THEN "Pending"
    ELSE "Ok"

\* Sink::poll_ready of the listener: an error once the receiver is dropped,
\* Pending while the buffer is at capacity.
SinkPollReady(id, buf) ==
    IF rx[id] # "open" THEN "Disconnected"
    ELSE IF Len(buf) >= cap THEN "Pending"
    ELSE "Ok"

\* Sink::start_send of the listener.
SinkStartSend(id, buf, event) ==
    IF rx[id] # "open"
    THEN [err |-> TRUE, buf |-> buf]
    ELSE [err |-> FALSE, buf |-> Append(buf, event)]

\* ------------------------------------------------ EventSubscription::poll
\* Mutant of PopFront: pop_back, the newest event first.
PopBack(q) == [item |-> q[Len(q)], rest |-> SubSeq(q, 1, Len(q) - 1)]

\* self.queued_events.pop_front()
PopFront(q) == [item |-> Head(q), rest |-> Tail(q)]

RECURSIVE EventSubscriptionPoll(_, _)

\* Mutant of EventSubscriptionPoll: the event is popped before the channel is
\* asked, and it is gone when the channel is not ready.
EventSubscriptionPollPopsFirst(sub, buf) ==
    IF sub.queued = <<>>
    THEN [sub |-> sub, buf |-> buf, res |-> SinkPollReady(sub.id, buf)]
    ELSE LET p == PopFront(sub.queued)
             popped == [sub EXCEPT !.queued = p.rest]
             ready == SinkPollReady(sub.id, buf)
         IN IF ready # "Ok"
            THEN [sub |-> popped, buf |-> buf, res |-> ready]
            ELSE The({EventSubscriptionPoll(nsub, nbuf) :
                        nsub \in {[popped EXCEPT !.sent = Append(@, p.item)]},
                        nbuf \in {Append(buf, p.item)}})

\* Mutant of EventSubscriptionPoll: no loop, one event is handed over and the
\* call returns Ready(Ok).
EventSubscriptionPollOnce(sub, buf) ==
    LET ready == SinkPollReady(sub.id, buf) IN
    IF ready # "Ok"
    THEN [sub |-> sub, buf |-> buf, res |-> ready]
    ELSE IF sub.queued # <<>>
    THEN LET p == PopFront(sub.queued)
             popped == [sub EXCEPT !.queued = p.rest]
             s == SinkStartSend(sub.id, buf, p.item)
         IN IF s.err
            THEN [sub |-> popped, buf |-> buf, res |-> "Disconnected"]
            ELSE [sub |-> [popped EXCEPT !.sent = Append(@, p.item)],
                  buf |-> s.buf, res |-> "Ok"]
    ELSE [sub |-> sub, buf |-> buf, res |-> "Ok"]

\* The loop: poll_ready, pop_front, start_send, until the queue is empty, the
\* channel is not ready or it is disconnected.  sent is the history of what
\* was handed to the channel.
EventSubscriptionPoll(sub, buf) ==
    LET ready == SinkPollReady(sub.id, buf) IN
    IF ready = "Disconnected"
    THEN [sub |-> sub, buf |-> buf, res |-> "Disconnected"]
    ELSE IF ready = "Pending"
    THEN [sub |-> sub, buf |-> buf, res |-> "Pending"]
    ELSE IF sub.queued # <<>>
    THEN LET p == PopFront(sub.queued)
             event == p.item
             popped == [sub EXCEPT !.queued = p.rest]
             s == SinkStartSend(sub.id, buf, event)
         IN IF s.err
            THEN [sub |-> popped, buf |-> buf, res |-> "Disconnected"]
            ELSE \* loop: the next round starts from the values of this one
                 The({EventSubscriptionPoll(nsub, nbuf) :
                        nsub \in {[popped EXCEPT !.sent = Append(@, event)]},
                        nbuf \in {s.buf}})
    ELSE [sub |-> sub, buf |-> buf, res |-> "Ok"]

\* ---------------------------------------------------- Subscriptions::poll
\* Vec::swap_remove(n), with n counted from 1: the element at n is taken out
\* and the last element moves into its place.
SwapRemove(list, n) ==
    LET len == Len(list) IN
    [item |-> list[n],
     rest |-> IF n = len
              THEN SubSeq(list, 1, len - 1)
              ELSE SubSeq([list EXCEPT ![n] = list[len]], 1, len - 1)]

\* Mutant of Retained: a disconnected subscription is pushed back too.
RetainedAlways(res) == TRUE

\* Mutant of Retained: only a subscription whose poll returned Ready(Ok) is
\* pushed back.
RetainedOnlyIdle(res) == res = "Ok"

\* What EventSubscription::poll can return, a Poll<Result<(), SendError>>:
\* Ready(Ok), Pending, and Ready(Err) of a SendError that is full or
\* disconnected.
PollResults == {"Ok", "Pending", "Full", "Disconnected"}

\* The match on sub.poll(cx): the subscription is pushed back unless the poll
\* returned an error that is a disconnect.
Retained(res) == res # "Disconnected"

\* for n in (0..subscriptions.len()).rev(): swap_remove, poll, push back
\* unless the poll reported a disconnect.  st = [list, chan, log]; log is the
\* order in which subscriptions were polled.
PollOne(st, n) ==
    LET taken == SwapRemove(st.list, n) IN
    The({[list |-> IF Retained(r.res) THEN Append(taken.rest, r.sub) ELSE taken.rest,
          chan |-> [st.chan EXCEPT ![taken.item.id] = r.buf],
          log |-> Append(st.log, taken.item.id)] :
            r \in {EventSubscriptionPoll(taken.item, st.chan[taken.item.id])}})

\* Mutant of PollList: for n in 0..subscriptions.len(), from the front; with
\* n steps left the index is the current length less n, counted from 1.
RECURSIVE PollListForward(_, _)
PollListForward(st, n) ==
    IF n = 0 THEN st
    ELSE The({PollListForward(nst, n - 1) :
                nst \in {PollOne(st, Len(st.list) - n + 1)}})

RECURSIVE PollList(_, _)
PollList(st, n) ==
    IF n = 0 THEN st
    ELSE The({PollList(nst, n - 1) : nst \in {PollOne(st, n)}})

\* for subscriptions in self.subs.values_mut(): the lists of different keys
\* hold different listeners, so the order of the keys does not matter.
RECURSIVE PollKeys(_, _, _)
PollKeys(keys, m, st) ==
    IF keys = {} THEN [subs |-> m, chan |-> st.chan, log |-> st.log]
    ELSE LET k == CHOOSE k \in keys : TRUE IN
         The({PollKeys(keys \ {k}, [m EXCEPT ![k] = r.list],
                       [chan |-> r.chan, log |-> r.log]) :
                r \in {PollList([list |-> m[k], chan |-> st.chan, log |-> st.log],
                                Len(m[k]))}})

\* The registry and the channels after one Subscriptions::poll.
SubscriptionsPoll(m, ch) == PollKeys(DOMAIN m, m, [chan |-> ch, log |-> <<>>])

\* A receiver whose task waits on the channel is woken when an item arrives
\* or when the last sender is dropped.
Woken(id, newChan, newSubs) ==
    /\ waker[id]
    /\ \/ Len(newChan[id]) > Len(chan[id])
       \/ (HasSender(id) /\ id \notin SenderIds(newSubs))

Poll ==
    /\ alive
    /\ \E r \in {SubscriptionsPoll(subs, chan)} :
        /\ subs' = r.subs
        /\ chan' = r.chan
        /\ task' = [id \in Ids |-> IF Woken(id, r.chan, r.subs) THEN "runnable" ELSE task[id]]
        /\ waker' = [id \in Ids |-> waker[id] /\ ~Woken(id, r.chan, r.subs)]
    /\ last' = [ret |-> "Ok", decodes |-> 0]
    /\ UNCHANGED <<alive, rx, bound, recv, yielded, nextHandle>>
    /\ UNCHANGED <<cap, elementVars>>

\* Drop of the Subscriptions value: every subscription and its sender go.
DropSubscriptions ==
    /\ alive
    /\ alive' = FALSE
    /\ subs' = [k \in {} |-> <<>>]
    /\ task' = [id \in Ids |-> IF Woken(id, chan, subs') THEN "runnable" ELSE task[id]]
    /\ waker' = [id \in Ids |-> waker[id] /\ ~Woken(id, chan, subs')]
    /\ UNCHANGED <<chan, rx, bound, recv, yielded, nextHandle, last>>
    /\ UNCHANGED <<cap, elementVars>>

\* Mutant of Downcast: the type is not checked.
DowncastAny(event, T) == TRUE

\* event.into_any_arc().downcast::<T>()
Downcast(event, T) == event.ty = T

\* ------------------------------------------- the channel's receiver half
\* Mutant of ReceiverPollNext: with an empty channel the receiver hands out
\* the oldest event in the queue of its subscription, which no drain has
\* handed to the channel.
ReceiverPollNextSeesQueue(id) ==
    IF chan[id] # <<>>
    THEN [res |-> "Some", item |-> <<Head(chan[id])>>, buf |-> Tail(chan[id]),
          waker |-> waker[id]]
    ELSE IF ~HasSender(id)
    THEN [res |-> "None", item |-> <<>>, buf |-> chan[id], waker |-> waker[id]]
    ELSE IF SubOf(subs, id).queued # <<>>
    THEN [res |-> "Some", item |-> <<Head(SubOf(subs, id).queued)>>, buf |-> chan[id],
          waker |-> waker[id]]
    ELSE [res |-> "Pending", item |-> <<>>, buf |-> chan[id], waker |-> TRUE]

\* Stream::poll_next of the UnboundedReceiver: the oldest buffered item, the
\* end once every sender is gone and the buffer is empty, else Pending with
\* the task's waker stored in the channel.
ReceiverPollNext(id) ==
    IF chan[id] # <<>>
    THEN [res |-> "Some", item |-> <<Head(chan[id])>>, buf |-> Tail(chan[id]),
          waker |-> waker[id]]
    ELSE IF ~HasSender(id)
    THEN [res |-> "None", item |-> <<>>, buf |-> chan[id], waker |-> waker[id]]
    ELSE [res |-> "Pending", item |-> <<>>, buf |-> chan[id], waker |-> TRUE]


\* ------------------------------------------------ EventStream::poll_next
\* What one poll_next returns and leaves behind: an item of the bound type is
\* returned; an item of another type is dropped and Pending is returned with
\* no waker stored.
EventStreamPollNext(id) ==
    LET r == ReceiverPollNext(id) IN
    IF r.res = "Some"
    THEN IF Downcast(r.item[1], bound[id])
         THEN [res |-> "Some", item |-> r.item, taken |-> r.item,
               buf |-> r.buf, waker |-> r.waker]
         ELSE [res |-> "Pending", item |-> <<>>, taken |-> r.item,
               buf |-> r.buf, waker |-> r.waker]
    ELSE [res |-> r.res, item |-> <<>>, taken |-> <<>>,
          buf |-> r.buf, waker |-> r.waker]

\* The consumer task polls its stream once.  After Some it polls again (it
\* stays runnable); after Pending it sleeps until it is woken; after None the
\* stream has ended.
TaskPolls(id) ==
    /\ \E r \in {EventStreamPollNext(id)} :
        /\ chan' = [chan EXCEPT ![id] = r.buf]
        /\ recv' = [recv EXCEPT ![id] = @ \o r.taken]
        /\ yielded' = [yielded EXCEPT ![id] = @ \o r.item]
        /\ waker' = [waker EXCEPT ![id] = r.waker]
        /\ task' = [task EXCEPT ![id] =
                        IF r.res = "Some" THEN "runnable"
                        ELSE IF r.res = "None" THEN "ended"
                        ELSE "parked"]
    /\ UNCHANGED <<subs, alive, rx, bound, nextHandle, last>>
    /\ UNCHANGED <<cap, elementVars>>

\* The consumer task is runnable (it was woken, or its last poll returned an
\* item) and runs.
PollNext(id) ==
    /\ rx[id] = "open"
    /\ task[id] = "runnable"
    /\ TaskPolls(id)

\* A sleeping consumer task is woken by something other than its channel
\* (it also waits on something else, or its executor polls it again) and
\* polls its stream.
UnrelatedWake(id) ==
    /\ rx[id] = "open"
    /\ task[id] = "parked"
    /\ TaskPolls(id)

\* The consumer drops its EventStream: the channel closes and what it still
\* buffers is dropped with it.
ConsumerDrop(id) ==
    /\ rx[id] = "open"
    /\ rx' = [rx EXCEPT ![id] = "dropped"]
    /\ chan' = [chan EXCEPT ![id] = <<>>]
    /\ task' = [task EXCEPT ![id] = "ended"]
    /\ waker' = [waker EXCEPT ![id] = FALSE]
    /\ bound' = [bound EXCEPT ![id] = "Nat"]
    /\ recv' = [recv EXCEPT ![id] = <<>>]
    /\ yielded' = [yielded EXCEPT ![id] = <<>>]
    /\ UNCHANGED <<subs, alive, nextHandle, last>>
    /\ UNCHANGED <<cap, elementVars>>

\* ------------------------------------------------ Element: string properties
\* Element::property: the value the page answers for this.<property>.
Property(property) == props[property]

\* str::is_empty
IsEmpty(txt) == txt = ""

\* A Result<Option<String>>.
Ok(val) == [err |-> "none", val |-> val]
Err(e) == [err |-> e, val |-> <<>>]

\* Element::string_property: NotFound without a value, the serde error for a
\* value that is no string, and for a string txt Some(txt) if txt is empty
\* and None if it is not.
StringProperty(property) ==
    LET value == Property(property) IN
    IF value = <<>> THEN Err("NotFound")
    ELSE IF value[1].ty # "string" THEN Err("Serde")
    ELSE LET txt == value[1].txt IN
         IF IsEmpty(txt) THEN Ok(<<txt>>) ELSE Ok(<<>>)

\* A call of string_property(property) and what it returned.
StringPropertyCall(property) ==
    /\ \E r \in {StringProperty(property)} :
         propret' = [property |-> property, err |-> r.err, val |-> r.val]
    /\ UNCHANGED <<props, node, stream, items>>
    /\ UNCHANGED registryVars

InnerText == StringPropertyCall("innerText")

InnerHtml == StringPropertyCall("innerHTML")

OuterHtml == StringPropertyCall("outerHTML")

\* ------------------------------------------------- Element: attribute stream
\* Element::attributes: node.attributes.unwrap_or_default()
Attributes == IF node = <<>> THEN <<>> ELSE node[1]

\* Element::attribute(name): this.getAttribute(name) in the page, the value
\* of the attribute of that name or null.
Attribute(name) ==
    LET flat == Attributes
        at == {i \in DOMAIN flat : i % 2 = 1 /\ flat[i] = name}
    IN IF at = {} THEN Ok(<<>>) ELSE Ok(<<flat[(CHOOSE i \in at : TRUE) + 1]>>)

\* Element::iter_attributes
IterAttributes ==
    /\ stream.state = "none"
    /\ stream' = [state |-> "live", attributes |-> Attributes, fut |-> <<>>]
    /\ UNCHANGED <<props, node, propret, items>>
    /\ UNCHANGED registryVars

\* Vec::pop: the last element is taken out.
VecPop(v) == [item |-> v[Len(v)], rest |-> SubSeq(v, 1, Len(v) - 1)]

\* AttributeStream::poll_next.  Without a lookup in flight the last element
\* of attributes is popped and looked up as a name, or the stream ends when
\* there is none; the lookup in flight is polled and its result is yielded
\* with the name once it is there (ready).
AttributeStreamPollNext(st, ready) ==
    IF st.fut = <<>> /\ st.attributes = <<>>
    THEN [stream |-> st, res |-> "None", item |-> <<>>]
    ELSE LET started == IF st.fut = <<>>
                        THEN LET p == VecPop(st.attributes) IN
                             [st EXCEPT !.attributes = p.rest, !.fut = <<p.item>>]
                        ELSE st
             name == started.fut[1]
         IN IF ready
            THEN [stream |-> [started EXCEPT !.fut = <<>>], res |-> "Some",
                  item |-> <<[name |-> name, res |-> Attribute(name)]>>]
            ELSE [stream |-> started, res |-> "Pending", item |-> <<>>]

\* The consumer polls the stream; the lookup in flight has completed or not.
AttributeStreamPoll ==
    /\ stream.state = "live"
    /\ \E ready \in BOOLEAN : \E r \in {AttributeStreamPollNext(stream, ready)} :
         /\ stream' = [r.stream EXCEPT !.state = IF r.res = "None" THEN "ended" ELSE @]
         /\ items' = items \o r.item
    /\ UNCHANGED <<props, node, propret>>
    /\ UNCHANGED registryVars


\* ------------------------------------------------------------ specification
Next ==
    \/ \E method \in Keys, T \in Types : AddListener(method, T)
    \/ \E method \in Keys : StartSend(method)
    \/ \E method \in Keys, val \in Raws : TrySendCustom(method, val)
    \/ Poll
    \/ DropSubscriptions
    \/ \E id \in Ids : PollNext(id)
    \/ \E id \in Ids : UnrelatedWake(id)
    \/ \E id \in Ids : ConsumerDrop(id)

Spec == Init /\ [][Next]_vars

\* The streams of the behaviours checked for liveness: both kinds, one
\* custom type.
LiveTypes == {"Nat", "CusA"}

\* The registry outlives its listeners.
LiveNext ==
    \/ \E method \in Keys, T \in LiveTypes : AddListener(method, T)
    \/ \E method \in Keys : StartSend(method)
    \/ \E method \in Keys, val \in Raws : TrySendCustom(method, val)
    \/ Poll
    \/ \E id \in Ids : PollNext(id)
    \/ \E id \in Ids : UnrelatedWake(id)
    \/ \E id \in Ids : ConsumerDrop(id)

\* The driving loop keeps calling Subscriptions::poll and every consumer
\* keeps pulling: its task is polled again, woken by its channel or not.
LiveSpec ==
    /\ Init /\ [][LiveNext]_vars
    /\ WF_vars(Poll)
    /\ \A id \in Ids : WF_vars(PollNext(id) \/ UnrelatedWake(id))

\* An element of the page with any properties and attributes; its string
\* properties are read and its attributes are iterated.
ElementInit ==
    /\ RegistryInit
    /\ cap = ChanCap
    /\ props \in [PropNames -> PropValues]
    /\ node \in NodeAttributes
    /\ ElementUntouched

ElementNext ==
    \/ InnerText
    \/ InnerHtml
    \/ OuterHtml
    \/ IterAttributes
    \/ AttributeStreamPoll

ElementSpec == ElementInit /\ [][ElementNext]_vars

\* The registry after the listeners 1..n were registered as native ones, in
\* this order, listener i under the key keyOf[i].
RECURSIVE Registered(_, _)
Registered(keyOf, n) ==
    IF n = 0 THEN [k \in {} |-> <<>>]
    ELSE AddListenerResult(Registered(keyOf, n - 1), keyOf[n], n, KindOf("Nat"))

\* The behaviours checked for what one drain does: native streams only,
\* channels that take two or three items before they are not ready, and a
\* registry that starts with any number of listeners registered, none of
\* which has been polled yet.
DrainInit ==
    /\ \E n \in 0..MaxListeners : \E keyOf \in [1..n -> Keys] :
         /\ subs = Registered(keyOf, n)
         /\ rx = [id \in Ids |-> IF id <= n THEN "open" ELSE "none"]
         /\ task = [id \in Ids |-> IF id <= n THEN "runnable" ELSE "ended"]
    /\ alive = TRUE
    /\ chan = [id \in Ids |-> <<>>]
    /\ waker = [id \in Ids |-> FALSE]
    /\ bound = [id \in Ids |-> "Nat"]
    /\ recv = [id \in Ids |-> <<>>]
    /\ yielded = [id \in Ids |-> <<>>]
    /\ nextHandle = 0
    /\ last = [ret |-> "Ok", decodes |-> 0]
    /\ cap \in ChanCap..MaxChanCap
    /\ props = [p \in PropNames |-> <<>>]
    /\ node = <<>>
    /\ ElementUntouched

DrainNext ==
    \/ \E method \in Keys : AddListener(method, "Nat")
    \/ \E method \in Keys : StartSend(method)
    \/ Poll
    \/ \E id \in Ids : PollNext(id)
    \/ \E id \in Ids : UnrelatedWake(id)
    \/ \E id \in Ids : ConsumerDrop(id)

DrainSpec == DrainInit /\ [][DrainNext]_vars

\* ------------------------------------------------------------------ claims
Range(q) == {q[i] : i \in DOMAIN q}

\* The subscription records of registry m.
SubsOf(m) == UNION {Range(m[k]) : k \in DOMAIN m}

\* C2: for every subscription in the registry, the events handed to its
\* channel followed by the events in its pending queue are, in order, exactly
\* the events queued on it since it was registered, each of them once; and
\* while its consumer is connected, what was handed to the channel is what
\* the consumer has taken out followed by what the channel still buffers.
C2_NoLossDupReorder ==
    \A s \in SubsOf(subs) :
        /\ s.sent \o s.queued = s.enq
        /\ \A i, j \in DOMAIN s.enq : i # j => s.enq[i].h # s.enq[j].h
        /\ rx[s.id] = "open" => s.sent = recv[s.id] \o chan[s.id]

\* Witness of C2: a drain has left one of a subscription's three events with
\* the consumer, one in the channel and one in the pending queue.
C2_Witness ==
    \E s \in SubsOf(subs) :
        /\ rx[s.id] = "open"
        /\ Len(s.enq) = 3
        /\ recv[s.id] # <<>> /\ chan[s.id] # <<>> /\ s.queued # <<>>

\* The decoder try_send_custom(method, val) runs rejects val.
DecoderRejects(method, val) ==
    /\ method \in DOMAIN subs
    /\ CustomConvs(subs[method]) # <<>>
    /\ val \notin Accepts(Head(CustomConvs(subs[method])))

\* C3: when the decoder fails in try_send_custom, the call returns the error
\* and has queued nothing: every subscription of the registry, of either
\* kind, is as it was, and so is every channel.
C3_DecodeFailureQueuesNothing ==
    [][\A method \in Keys, val \in Raws :
         (TrySendCustom(method, val) /\ DecoderRejects(method, val))
            => /\ last'.ret = "Err"
               /\ UNCHANGED <<subs, chan, nextHandle>>]_vars

\* Witness of C3: a call has returned the decode error on a key that holds a
\* Native and a Custom subscription.
C3_Witness ==
    /\ last.ret = "Err"
    /\ \E k \in DOMAIN subs :
         /\ \E s \in Range(subs[k]) : IsCustom(s.kind)
         /\ \E s \in Range(subs[k]) : ~IsCustom(s.kind)

\* The events in the pending queues of registry m, and those in the channels.
AllQueued(m) == UNION {Range(s.queued) : s \in SubsOf(m)}
AllBuffered == UNION {Range(chan[id]) : id \in Ids}

\* The queue of the subscription of listener id grew by exactly the event e.
Enqueued(id, e) ==
    /\ id \in SenderIds(subs')
    /\ SubOf(subs', id).queued = Append(SubOf(subs, id).queued, e)

\* C4: a try_send_custom that succeeds on a key with Custom subscriptions has
\* run a decoder exactly once, and every Custom subscription of the key has
\* had the same, newly allocated Arc queued, once.
C4_OneDecodeSharedHandle ==
    [][\A method \in Keys, val \in Raws :
         (/\ TrySendCustom(method, val)
          /\ method \in DOMAIN subs
          /\ CustomConvs(subs[method]) # <<>>
          /\ last'.ret = "Ok")
            => /\ last'.decodes = 1
               /\ \E e \in AllQueued(subs') :
                    /\ e.h = nextHandle + 1 /\ e.src = "custom"
                    /\ e.h \notin {x.h : x \in AllQueued(subs) \cup AllBuffered}
                    /\ \A s \in Range(subs[method]) :
                          IsCustom(s.kind) => Enqueued(s.id, e)]_vars

\* Witness of C4: two Custom subscriptions with different decoders under one
\* key hold the same Arc.
C4_Witness ==
    /\ last = [ret |-> "Ok", decodes |-> 1]
    /\ \E k \in DOMAIN subs : \E s, t \in Range(subs[k]) :
         /\ s.id # t.id
         /\ IsCustom(s.kind) /\ IsCustom(t.kind) /\ s.kind # t.kind
         /\ s.queued # <<>> /\ s.queued = t.queued
         /\ s.queued[1].src = "custom"

\* C5: no event that try_send_custom produced is ever in the pending queue or
\* in the channel of a Native subscription, nor was one ever queued on it.
C5_NativeGetsNoCustom ==
    \A s \in SubsOf(subs) :
        ~IsCustom(s.kind) =>
            \A e \in Range(s.queued) \cup Range(s.enq) \cup Range(chan[s.id]) :
                e.src # "custom"

\* Witness of C5: a Native subscription whose key has had a custom event
\* queued on the Custom subscription beside it.
C5_Witness ==
    \E k \in DOMAIN subs : \E s, t \in Range(subs[k]) :
        /\ ~IsCustom(s.kind) /\ IsCustom(t.kind)
        /\ \E e \in Range(t.enq) : e.src = "custom"

\* C6 as stated: no event that start_send produced is ever in the pending
\* queue or in the channel of a Custom subscription.
C6_CustomGetsNoNative ==
    \A s \in SubsOf(subs) :
        IsCustom(s.kind) =>
            \A e \in Range(s.queued) \cup Range(chan[s.id]) : e.src # "native"

\* C6 as amended: start_send queues its event on the Custom subscriptions of
\* its own key, as it does on the Native ones, and on no Custom subscription
\* of another key: a Custom subscription never receives anything from a
\* start_send on another key.
C6_CustomGetsNativeOfOwnKey ==
    [][\A method \in Keys :
         (StartSend(method) /\ method \in DOMAIN subs)
            => \A k \in DOMAIN subs : \A s \in Range(subs[k]) :
                  IsCustom(s.kind) =>
                     IF k = method
                     THEN Enqueued(s.id, NativeEvent(nextHandle + 1, method))
                     ELSE s \in Range(subs'[k])]_vars

\* Witness of C6: a Custom subscription holds an event of start_send while
\* the other key has had events of its own.
C6_Witness ==
    \E k \in DOMAIN subs : \E s \in Range(subs[k]) :
        /\ IsCustom(s.kind)
        /\ \E e \in Range(s.queued) : e.src = "native"
        /\ \E k2 \in DOMAIN subs : k2 # k /\ \E t \in Range(subs[k2]) : t.enq # <<>>

\* C7: start_send on a key queues one and the same new Arc, once, at the back
\* of the queue of every subscription of that key, whatever its kind, and
\* leaves every other key's subscriptions, and every channel, as they were.
C7_NativeDispatchFrame ==
    [][\A method \in Keys :
         (StartSend(method) /\ method \in DOMAIN subs)
            => /\ DOMAIN subs' = DOMAIN subs
               /\ \A k \in DOMAIN subs \ {method} : subs'[k] = subs[k]
               /\ Len(subs'[method]) = Len(subs[method])
               /\ \A i \in DOMAIN subs[method] :
                     /\ subs'[method][i].id = subs[method][i].id
                     /\ Len(subs'[method][i].queued) = Len(subs[method][i].queued) + 1
                     /\ Enqueued(subs[method][i].id, subs'[method][1].queued[Len(subs'[method][1].queued)])
               /\ \A e \in AllQueued(subs') \ AllQueued(subs) :
                     /\ e.src = "native" /\ e.key = method
                     /\ e.h \notin {x.h : x \in AllQueued(subs) \cup AllBuffered}
               /\ chan' = chan]_vars

\* Witness of C7: A on "Foo" has yielded the event of a start_send on "Foo"
\* after a drain, and B on "Bar" has had nothing queued, sent or yielded.
C7_Witness ==
    /\ {"Foo", "Bar"} \subseteq DOMAIN subs
    /\ \E a \in Range(subs["Foo"]), b \in Range(subs["Bar"]) :
         /\ ~IsCustom(a.kind) /\ ~IsCustom(b.kind)
         /\ Len(a.enq) = 1 /\ yielded[a.id] = a.enq
         /\ b.enq = <<>> /\ chan[b.id] = <<>> /\ yielded[b.id] = <<>>
         /\ rx[b.id] = "open"

\* C8: every drain removes the subscriptions whose consumer has dropped its
\* handle; a removed subscription is never in the registry again, so no later
\* dispatch queues on it and no later drain polls it; and no listener is in
\* the registry twice.
C8_DroppedConsumerRemovedOnce ==
    [][/\ Poll => \A s \in SubsOf(subs') : rx[s.id] = "open"
       /\ \A id \in Ids :
             (rx[id] = "dropped" /\ id \notin SenderIds(subs))
                => /\ id \notin SenderIds(subs')
                   /\ id \notin Range(SubscriptionsPoll(subs, chan).log)
       /\ \A k \in DOMAIN subs' : \A i, j \in DOMAIN subs'[k] :
             i # j => subs'[k][i].id # subs'[k][j].id]_vars

\* Witness of C8: of two subscriptions of one key the consumer of the later
\* one dropped its handle, a drain removed that subscription, and a start_send
\* after the drain has queued on the one that is left.
C8_Witness ==
    /\ alive
    /\ \E k \in Keys :
         /\ DOMAIN subs = {k}
         /\ Len(subs[k]) = 1
         /\ rx[subs[k][1].id] = "open"
         /\ subs[k][1].queued # <<>> /\ subs[k][1].sent = <<>>
         /\ \E id \in Ids : rx[id] = "dropped" /\ id > subs[k][1].id

\* C9: EventStream::poll_next never reports Pending without a wake being
\* scheduled: a consumer task that sleeps on its stream has its waker stored
\* in the channel.
C9_PendingHasWaker ==
    \A id \in Ids : (rx[id] = "open" /\ task[id] = "parked") => waker[id]

\* The items of q of type T.
OfType(q, T) == SelectSeq(q, LAMBDA e : e.ty = T)

\* C10: the stream has yielded exactly the items of its bound type among the
\* items its channel delivered, unchanged and in delivery order; it has ended
\* only with its channel empty and every sender gone, and a poll_next in
\* that situation does end it.
C10_TypedStreamOrderAndEnd ==
    /\ [](\A id \in Ids :
            rx[id] = "open" =>
                /\ yielded[id] = OfType(recv[id], bound[id])
                /\ task[id] = "ended" => (chan[id] = <<>> /\ ~HasSender(id)))
    /\ [][\A id \in Ids :
            (PollNext(id) /\ chan[id] = <<>> /\ ~HasSender(id))
                => task'[id] = "ended"]_vars

\* Witness of C10: a stream has ended after yielding an item of its type and
\* dropping an item of another type.
C10_Witness ==
    \E id \in Ids :
        /\ rx[id] = "open" /\ task[id] = "ended"
        /\ yielded[id] # <<>> /\ Len(recv[id]) > Len(yielded[id])

\* q is an initial part of r.
IsPrefix(q, r) == Len(q) <= Len(r) /\ q = SubSeq(r, 1, Len(q))

\* C1: while the registry is drained and the consumer pulls, a subscription
\* whose consumer stays connected hands its consumer every event queued on it
\* since it was registered, in the order of the dispatches: what the consumer
\* has taken is always an initial part of what was queued, and the consumer
\* catches up with it again and again.
C1_EventuallyYieldsAll ==
    /\ [](\A s \in SubsOf(subs) :
            rx[s.id] = "open" =>
                /\ IsPrefix(recv[s.id], s.enq)
                /\ \A i, j \in DOMAIN s.enq : i < j => s.enq[i].h < s.enq[j].h)
    /\ \A id \in Ids :
         []<>(\/ rx[id] # "open"
              \/ (HasSender(id) /\ recv[id] = SubOf(subs, id).enq))

\* Witness of C1: a consumer has taken all three events of its subscription,
\* which did not fit into the channel at once.
C1_Witness ==
    \E s \in SubsOf(subs) :
        /\ rx[s.id] = "open"
        /\ Len(s.enq) = 3 /\ recv[s.id] = s.enq

\* C11: a drain treats every subscription by the state of its own channel
\* alone.  A connected subscription whose channel is not ready keeps its
\* queue and its channel as they were; every other connected subscription has
\* its pending events handed to its channel, oldest first, until its queue
\* is empty or its own channel is full, whatever the state of the others.
\* And a dispatch on a key queues on every subscription it addresses,
\* whether that subscription's channel is ready or not, and touches no
\* channel.
C11_BackpressurePerSubscription ==
    [][/\ Poll =>
            \A s \in SubsOf(subs) :
                rx[s.id] = "open" =>
                    /\ s.id \in SenderIds(subs')
                    /\ LET t == SubOf(subs', s.id) IN
                       IF Len(chan[s.id]) >= cap
                       THEN t = s /\ chan'[s.id] = chan[s.id]
                       ELSE /\ t.sent \o t.queued = s.sent \o s.queued
                            /\ chan'[s.id] \o t.queued = chan[s.id] \o s.queued
                            /\ t.queued = <<>> \/ Len(chan'[s.id]) = cap
       /\ \A method \in Keys :
            (/\ method \in DOMAIN subs
             /\ \/ StartSend(method)
                \/ \E val \in Raws :
                      TrySendCustom(method, val) /\ last' = [ret |-> "Ok", decodes |-> 1])
                => /\ chan' = chan
                   /\ \A s \in Range(subs[method]) :
                        (last'.decodes = 0 \/ IsCustom(s.kind)) =>
                            /\ s.id \in SenderIds(subs')
                            /\ Len(SubOf(subs', s.id).queued) = Len(s.queued) + 1]_vars

\* Witness of C11: of two subscriptions of one key that were handed the same
\* three events, the one whose consumer never pulled has a full channel and
\* an event left in its queue, and the other has had all three handed to its
\* channel.
C11_Witness ==
    \E k \in DOMAIN subs : \E s, t \in Range(subs[k]) :
        /\ s.id # t.id
        /\ rx[s.id] = "open" /\ rx[t.id] = "open"
        /\ Len(s.enq) = 3 /\ t.enq = s.enq
        /\ recv[s.id] = <<>> /\ Len(chan[s.id]) = ChanCap /\ s.queued # <<>>
        /\ t.queued = <<>> /\ Len(t.sent) = 3

\* C12: string_property has returned, for a property whose value is a string,
\* None if the string is empty and Some of the string if it is not; so have
\* inner_text, inner_html and outer_html.
C12_StringPropertySomeIffNonEmpty ==
    \A p \in PropNames :
        (propret.property = p /\ props[p] # <<>> /\ props[p][1].ty = "string")
            => /\ propret.err = "none"
               /\ propret.val = IF props[p][1].txt = "" THEN <<>> ELSE <<props[p][1].txt>>

\* The names of the attributes in a flat array.
NamesOf(flat) == {flat[i] : i \in {j \in DOMAIN flat : j % 2 = 1}}

\* C13: once the AttributeStream has ended it has yielded one item for every
\* attribute of the element, and the name of each item is the name of an
\* attribute, each name once.
C13_OneItemPerAttributeName ==
    stream.state = "ended" =>
        /\ Len(items) * 2 = Len(Attributes)
        /\ {items[i].name : i \in DOMAIN items} = NamesOf(Attributes)

\* C14: a drain keeps every subscription whose consumer is connected,
\* whether its poll returned Ready(Ok) or Pending, and a subscription it
\* removes is one whose consumer has dropped its handle; of the results a
\* poll can return only the disconnect error is not pushed back.
C14_OnlyDisconnectedRemoved ==
    /\ [][Poll =>
            \A s \in SubsOf(subs) :
                /\ rx[s.id] = "open" =>
                      /\ EventSubscriptionPoll(s, chan[s.id]).res \in {"Ok", "Pending"}
                      /\ s.id \in SenderIds(subs')
                /\ s.id \notin SenderIds(subs') => rx[s.id] = "dropped"]_vars
    /\ [](\A res \in PollResults : Retained(res) <=> res # "Disconnected")

\* Witness of C14: the registry is still there; a drain has left a
\* subscription in it whose channel is full and whose queue is not empty,
\* and the subscription of a consumer that dropped its handle is gone.
C14_Witness ==
    /\ alive
    /\ \E s \in SubsOf(subs) :
         /\ rx[s.id] = "open"
         /\ s.sent # <<>> /\ s.queued # <<>> /\ Len(chan[s.id]) = ChanCap
    /\ \E id \in Ids : rx[id] = "dropped" /\ ~HasSender(id)

\* C15: when the poll of a subscription in a drain returns Ready(Ok), the
\* subscription's queue is empty afterwards and its channel holds what it
\* held before followed by every event that was in the queue, in queue
\* order.
C15_IdleMeansAllFlushed ==
    [][Poll =>
         \A s \in SubsOf(subs) :
             EventSubscriptionPoll(s, chan[s.id]).res = "Ok" =>
                 /\ s.id \in SenderIds(subs')
                 /\ SubOf(subs', s.id).queued = <<>>
                 /\ SubOf(subs', s.id).sent = s.sent \o s.queued
                 /\ chan'[s.id] = chan[s.id] \o s.queued]_vars

\* Witness of C15: two events were queued on a subscription, the consumer
\* has taken nothing, both events are in the channel in the order they were
\* queued in, the queue is empty and the channel would take one more.
C15_Witness ==
    \E s \in SubsOf(subs) :
        /\ rx[s.id] = "open" /\ recv[s.id] = <<>>
        /\ Len(s.enq) = 2 /\ chan[s.id] = s.enq /\ s.queued = <<>>
        /\ Len(chan[s.id]) < cap

\* C16: a poll that finds the channel of a connected consumer not ready
\* returns Pending and leaves the subscription's queue and the channel as
\* they are.  Whenever a poll returns Pending nothing has been popped that
\* was not handed to the channel: the queue is what is left of the old queue
\* behind the events the channel has got, in the old order.  And a poll that
\* finds the channel ready hands it the oldest event of the queue first.
C16_NotReadyPopsNothing ==
    [][Poll =>
         \A s \in SubsOf(subs) :
             rx[s.id] = "open" =>
                 LET r == EventSubscriptionPoll(s, chan[s.id])
                     was == chan[s.id]
                 IN /\ s.id \in SenderIds(subs')
                    /\ Len(was) >= cap =>
                          /\ r.res = "Pending"
                          /\ SubOf(subs', s.id) = s
                          /\ chan'[s.id] = was
                    /\ r.res = "Pending" =>
                          /\ Len(chan'[s.id]) >= cap
                          /\ chan'[s.id] \o SubOf(subs', s.id).queued = was \o s.queued
                    /\ (Len(was) < cap /\ s.queued # <<>>) =>
                          chan'[s.id][Len(was) + 1] = Head(s.queued)]_vars

\* Witness of C16: a subscription has had two of its three events handed to
\* the channel, which is full; the third is in the queue and a poll of the
\* subscription returns Pending.
C16_Witness ==
    \E s \in SubsOf(subs) :
        /\ rx[s.id] = "open"
        /\ Len(s.sent) = 2 /\ Len(s.queued) = 1
        /\ EventSubscriptionPoll(s, chan[s.id]).res = "Pending"

\* q is a final part of r.
IsSuffix(q, r) == Len(q) <= Len(r) /\ q = SubSeq(r, Len(r) - Len(q) + 1, Len(r))

\* The list of key k in registry m, empty if m has no such key.
ListOf(m, k) == IF k \in DOMAIN m THEN m[k] ELSE <<>>

\* C17: add_listener puts exactly one new subscription, with an empty queue
\* and the kind of its stream, at the end of the list of its key, whatever
\* the list already holds, and leaves every subscription there is, and every
\* channel, as it was.  An event that is queued on a subscription in any
\* step is the Arc allocated in that step, so a subscription holds only
\* events dispatched after its registration; and of two subscriptions of one
\* key and of the same kind the later one has had queued exactly the events
\* the earlier one has had queued since.
C17_RegisterAppendsOne ==
    /\ [][\A method \in Keys, T \in Types :
            AddListener(method, T) =>
                /\ DOMAIN subs' = DOMAIN subs \cup {method}
                /\ \A k \in DOMAIN subs \ {method} : subs'[k] = subs[k]
                /\ Len(subs'[method]) = Len(ListOf(subs, method)) + 1
                /\ SubSeq(subs'[method], 1, Len(ListOf(subs, method))) = ListOf(subs, method)
                /\ LET new == subs'[method][Len(subs'[method])] IN
                     /\ new.queued = <<>> /\ new.enq = <<>> /\ new.sent = <<>>
                     /\ new.kind = KindOf(T)
                     /\ new.id \notin SenderIds(subs)
                /\ chan' = chan]_vars
    /\ [][\A t \in SubsOf(subs') : \A e \in Range(t.enq) :
            (t.id \notin SenderIds(subs) \/ e \notin Range(SubOf(subs, t.id).enq))
                => e.h = nextHandle + 1 /\ nextHandle' = e.h]_vars
    /\ [](\A k \in DOMAIN subs : \A s, t \in Range(subs[k]) :
            (s.id < t.id /\ s.kind = t.kind) => IsSuffix(t.enq, s.enq))

\* Witness of C17: two subscriptions of the same kind under one key; two
\* events were queued on the one registered first, and the other, registered
\* between the two dispatches, has had only the second queued.
C17_Witness ==
    \E k \in DOMAIN subs : \E s, t \in Range(subs[k]) :
        /\ s.id < t.id /\ s.kind = t.kind
        /\ Len(s.enq) = 2 /\ t.enq = <<s.enq[2]>>

\* C18: try_send_custom on a key that has no subscription of the Custom
\* kind, be it a key with no list, with an empty list or with Native
\* subscriptions only, runs no decoder, returns Ok and leaves the registry
\* and every channel as they were, whatever the raw value; and start_send on
\* a key without subscriptions leaves every subscription and every channel
\* as it was.
C18_DispatchWithoutTargetsIsNoOp ==
    [][\A method \in Keys :
         /\ \A val \in Raws :
              (/\ TrySendCustom(method, val)
               /\ \A s \in Range(ListOf(subs, method)) : ~IsCustom(s.kind))
                  => /\ last' = [ret |-> "Ok", decodes |-> 0]
                     /\ UNCHANGED <<subs, chan, nextHandle>>
         /\ (StartSend(method) /\ ListOf(subs, method) = <<>>)
                  => /\ last'.ret = "Ok"
                     /\ UNCHANGED <<subs, chan>>]_vars

\* Witness of C18: the last registry call returned Ok without a decoder run.
\* Both keys have subscriptions, one of them Native ones only; the listener
\* registered last is a Custom one and holds a decoded event, no start_send
\* has happened and nothing has been drained: the last call was a
\* try_send_custom on the key with the Native subscriptions.
C18_Witness ==
    /\ last = [ret |-> "Ok", decodes |-> 0]
    /\ nextHandle = 1
    /\ DOMAIN subs = Keys
    /\ \A id \in 1..MaxSubs :
         rx[id] = "open" /\ HasSender(id) /\ SubOf(subs, id).sent = <<>>
    /\ \E k \in Keys : \A s \in Range(subs[k]) : ~IsCustom(s.kind) /\ s.enq = <<>>
    /\ \E s \in SubsOf(subs) :
         /\ s.id = MaxSubs
         /\ IsCustom(s.kind) /\ Len(s.queued) = 1 /\ s.queued[1].src = "custom"

\* The loop over one list, from index n down, takes every index from a list
\* that is long enough.
RECURSIVE IndexesInRange(_, _)
IndexesInRange(st, n) ==
    \/ n = 0
    \/ /\ n <= Len(st.list)
       /\ \A nst \in {PollOne(st, n)} : IndexesInRange(nst, n - 1)

\* C19: one drain polls every subscription that is in the registry when it
\* starts, each of them once: the subscription and its channel are
\* afterwards what one EventSubscription::poll makes of them, the
\* subscription is gone exactly if that poll reported the disconnect, every
\* index the loop takes is within the list, and no list has gained a
\* subscription or holds one twice.
C19_DrainPollsEachOnce ==
    [][Poll =>
         LET r == SubscriptionsPoll(subs, chan) IN
         /\ Len(r.log) = Cardinality(SenderIds(subs))
         /\ Range(r.log) = SenderIds(subs)
         /\ \A s \in SubsOf(subs) :
              LET one == EventSubscriptionPoll(s, chan[s.id]) IN
              /\ chan'[s.id] = one.buf
              /\ IF one.res = "Disconnected"
                 THEN s.id \notin SenderIds(subs')
                 ELSE s.id \in SenderIds(subs') /\ SubOf(subs', s.id) = one.sub
         /\ DOMAIN subs' = DOMAIN subs
         /\ \A k \in DOMAIN subs :
              /\ IndexesInRange([list |-> subs[k], chan |-> chan, log |-> <<>>],
                                Len(subs[k]))
              /\ {t.id : t \in Range(subs'[k])} \subseteq {t.id : t \in Range(subs[k])}
              /\ \A i, j \in DOMAIN subs'[k] :
                    i # j => subs'[k][i].id # subs'[k][j].id]_vars

\* Witness of C19: the one key of the registry had three subscriptions; the
\* consumer of the second dropped its handle, and a drain has removed that
\* subscription, moved the third into its place and handed each of the two
\* that are left its event.
C19_Witness ==
    \E k \in Keys :
        /\ DOMAIN subs = {k}
        /\ rx = <<"open", "dropped", "open">>
        /\ Len(subs[k]) = 2
        /\ subs[k][1].id = 3 /\ subs[k][2].id = 1
        /\ \A i \in 1..2 : subs[k][i].queued = <<>> /\ Len(subs[k][i].sent) = 1

\* C20: a dispatch leaves every channel and what every consumer has got as
\* they were.  An event comes into a channel only in a Subscriptions::poll,
\* out of the queue of the subscription, where an earlier dispatch has put
\* it; and a consumer gets an event only out of its channel.  So what a
\* consumer sees of an event follows a drain that follows the dispatch.
C20_OnlyDrainFillsChannels ==
    /\ [][\A method \in Keys :
            (StartSend(method) \/ \E val \in Raws : TrySendCustom(method, val))
                => UNCHANGED <<chan, recv, yielded>>]_vars
    /\ [][\A id \in Ids :
            /\ \A e \in Range(chan'[id]) \ Range(chan[id]) :
                 /\ Poll
                 /\ HasSender(id) /\ e \in Range(SubOf(subs, id).queued)
            /\ \A e \in Range(recv'[id]) \ Range(recv[id]) : e \in Range(chan[id])
            /\ \A e \in Range(yielded'[id]) \ Range(yielded[id]) : e \in Range(chan[id])]_vars
    /\ [](\A s \in SubsOf(subs) : \A e \in Range(s.queued) :
            e \notin Range(s.sent) /\ e \notin Range(chan[s.id]) /\ e \notin Range(recv[s.id]))

\* Witness of C20: the consumer of a subscription has been yielded the first
\* of two events; the second has been dispatched and is in the queue, the
\* channel is empty and the consumer, which found nothing more, is parked.
C20_Witness ==
    \E s \in SubsOf(subs) :
        /\ rx[s.id] = "open"
        /\ Len(s.enq) = 2
        /\ yielded[s.id] = <<s.enq[1]>>
        /\ s.queued = <<s.enq[2]>>
        /\ chan[s.id] = <<>>
        /\ task[s.id] = "parked" /\ waker[s.id]

====
